---- MODULE Spec2Model ----
(***************************************************************************)
(* A model of the vm-device bus (src/src/bus.rs): BusRange, the Bus        *)
(* registry (a BTreeMap keyed by range, ranges ordered by base alone) and  *)
(* BusManager::check_access.  The address domain is scaled down from       *)
(* u64 / u16 to 0..MaxAddr; checked_add keeps the overflow check.          *)
(***************************************************************************)
EXTENDS Integers, FiniteSets, Sequences, TLC

\* Largest address (and largest value) of the scaled-down address domain.
MaxAddr == 3

\* Access lengths are usize values: wider than the domain's value type.
MaxLen == MaxAddr + 1

Addr == 0..MaxAddr

\* The device handles: two distinct opaque values.
Dev == {1, 2}

\* Placeholders for "no range" / "no device" in call and result records.
NoRange == [base |-> 0, size |-> 0]

NoDev == 0

\* BusAddress::checked_add: None (here -1) when the sum leaves the domain.
checked_add_wrapping(a, v) == (a + v) % (MaxAddr + 1)

checked_add(a, v) == IF a + v > MaxAddr THEN -1 ELSE a + v

\* BusRange::new: the range, or NoRange for Err(InvalidRange).
BusRange_new(b, s) ==
    IF s = 0 THEN NoRange
    ELSE IF checked_add(b, s - 1) = -1 THEN NoRange
    ELSE [base |-> b, size |-> s]

\* BusRange::new_unit
new_unit(b) == [base |-> b, size |-> 1]

\* Every BusRange value a caller can hold (fields are private: only new and
\* new_unit construct one); a size is a value of the domain's value type.
ValidRanges ==
    {BusRange_new(b, s) : b \in Addr, s \in 0..MaxAddr} \ {NoRange}

\* BusRange::last
last(r) == r.base + (r.size - 1)

\* BusRange::overlaps, as written in the source.
overlaps(self, other) == self.base > last(other) \/ last(self) < other.base

\* Bus::device: floor lookup by base, then the filter on last().
device_no_filter(bus, addr) ==
    LET below == {e \in bus : e.range.base <= new_unit(addr).base}
    IN  IF below = {} THEN [tag |-> "None", range |-> NoRange, device |-> NoDev]
        ELSE LET e == CHOOSE x \in below :
                          \A y \in below : y.range.base <= x.range.base
             IN  [tag |-> "Some", range |-> e.range, device |-> e.device]

device(bus, addr) ==
    LET below == {e \in bus : e.range.base <= new_unit(addr).base}
    IN  IF below = {} THEN [tag |-> "None", range |-> NoRange, device |-> NoDev]
        ELSE LET e == CHOOSE x \in below :
                          \A y \in below : y.range.base <= x.range.base
             IN  IF last(e.range) >= addr
                 THEN [tag |-> "Some", range |-> e.range, device |-> e.device]
                 ELSE [tag |-> "None", range |-> NoRange, device |-> NoDev]

\* BTreeMap::insert: keys are equal when their bases are equal; on an equal
\* key the stored key is kept and only the value is replaced.
insert_collides(bus, range) == \E e \in bus : e.range.base = range.base

insert(bus, range, dev) ==
    IF insert_collides(bus, range)
    THEN {IF e.range.base = range.base
          THEN [range |-> e.range, device |-> dev] ELSE e : e \in bus}
    ELSE bus \cup {[range |-> range, device |-> dev]}

\* BTreeMap::remove(&range)
remove(bus, range) == {e \in bus : e.range.base # range.base}

\* Bus::register: the result tag and the map afterwards.
register_result(bus, range) ==
    IF \E e \in bus : overlaps(range, e.range) THEN "DeviceOverlap"
    ELSE IF insert_collides(bus, range) THEN "Panic"
    ELSE "Ok"

register_bus(bus, range, dev) ==
    IF \E e \in bus : overlaps(range, e.range) THEN bus
    ELSE insert(bus, range, dev)

\* Bus::unregister
unregister_result(bus, addr) ==
    LET found == device(bus, addr)
    IN  IF found.tag = "None" THEN found
        ELSE LET hit == {e \in bus : e.range.base = found.range.base}
             IN  IF hit = {} THEN [tag |-> "None", range |-> NoRange, device |-> NoDev]
                 ELSE [tag |-> "Some", range |-> found.range,
                       device |-> (CHOOSE e \in hit : TRUE).device]

unregister_bus(bus, addr) ==
    LET found == device(bus, addr)
    IN  IF found.tag = "None" THEN bus ELSE remove(bus, found.range)

\* BusManager::check_access
check_access_no_span(bus, addr, len) ==
    IF len > MaxAddr
    THEN [tag |-> "InvalidAccessLength", range |-> NoRange, device |-> NoDev]
    ELSE IF BusRange_new(addr, len) = NoRange
    THEN [tag |-> "InvalidRange", range |-> NoRange, device |-> NoDev]
    ELSE LET found == device(bus, addr)
         IN  IF found.tag = "Some"
             THEN [tag |-> "Ok", range |-> found.range, device |-> found.device]
             ELSE [tag |-> "DeviceNotFound", range |-> NoRange, device |-> NoDev]

check_access_span_from_base(bus, addr, len) ==
    IF len > MaxAddr
    THEN [tag |-> "InvalidAccessLength", range |-> NoRange, device |-> NoDev]
    ELSE IF BusRange_new(addr, len) = NoRange
    THEN [tag |-> "InvalidRange", range |-> NoRange, device |-> NoDev]
    ELSE LET access_range == BusRange_new(addr, len)
             found == device(bus, addr)
         IN  IF found.tag = "Some" /\ last(found.range) >= access_range.base
             THEN [tag |-> "Ok", range |-> found.range, device |-> found.device]
             ELSE [tag |-> "DeviceNotFound", range |-> NoRange, device |-> NoDev]

check_access_lookup_first(bus, addr, len) ==
    LET found == device(bus, addr)
    IN  IF found.tag = "None"
        THEN [tag |-> "DeviceNotFound", range |-> NoRange, device |-> NoDev]
        ELSE IF len > MaxAddr
        THEN [tag |-> "InvalidAccessLength", range |-> NoRange, device |-> NoDev]
        ELSE IF BusRange_new(addr, len) = NoRange
        THEN [tag |-> "InvalidRange", range |-> NoRange, device |-> NoDev]
        ELSE IF last(found.range) >= last(BusRange_new(addr, len))
        THEN [tag |-> "Ok", range |-> found.range, device |-> found.device]
        ELSE [tag |-> "DeviceNotFound", range |-> NoRange, device |-> NoDev]

check_access(bus, addr, len) ==
    IF len > MaxAddr
    THEN [tag |-> "InvalidAccessLength", range |-> NoRange, device |-> NoDev]
    ELSE IF BusRange_new(addr, len) = NoRange
    THEN [tag |-> "InvalidRange", range |-> NoRange, device |-> NoDev]
    ELSE LET access_range == BusRange_new(addr, len)
             found == device(bus, addr)
         IN  IF found.tag = "Some" /\ last(found.range) >= last(access_range)
             THEN [tag |-> "Ok", range |-> found.range, device |-> found.device]
             ELSE [tag |-> "DeviceNotFound", range |-> NoRange, device |-> NoDev]

VARIABLES
    devices,    \* Bus.devices: the entries of the BTreeMap
    panicked,   \* the assertion in Bus::register has failed
    pre,        \* Bus.devices as it was when the last call started
    call,       \* the last call and its arguments
    ret,        \* what the last call returned
    mmio_bus,   \* IoManager.mmio_bus: the entries of its BTreeMap
    pio_bus,    \* IoManager.pio_bus: the entries of its BTreeMap
    io_pre,     \* both buses as they were when the IoManager call started
    io_call,    \* the IoManager call in progress and its arguments
    io_ret,     \* what that call returned, and the device calls it made
    threads     \* the dispatches in flight on &IoManager, one per context

busvars == <<devices, panicked, pre, call, ret>>

iovars == <<mmio_bus, pio_bus, io_pre, io_call, io_ret, threads>>

vars == <<devices, panicked, pre, call, ret,
          mmio_bus, pio_bus, io_pre, io_call, io_ret, threads>>

NoCall == [op |-> "new", range |-> NoRange, other |-> NoRange,
           device |-> NoDev, addr |-> 0, len |-> 0]

Unit == [tag |-> "Ok", range |-> NoRange, device |-> NoDev]

\* No IoManager call in progress.
IoIdleCall == [op |-> "idle", after |-> "none", device |-> NoDev,
               resources |-> <<>>, addr |-> 0, len |-> 0]

IoNoRet == [tag |-> "Ok", at |-> 0, phase |-> "none", count |-> 0,
            steps |-> <<>>, calls |-> <<>>]

NoBuses == [mmio |-> {}, pio |-> {}]

\* The execution contexts that hold a shared reference to the IoManager.
Thread == {1, 2}

\* A context that is not inside a call.
ThreadIdle == [pc |-> "idle", op |-> "idle", addr |-> 0, len |-> 0,
               start |-> NoBuses, found |-> [tag |-> "None", base |-> 0],
               ret |-> [tag |-> "None"]]

\* IoManager::new: both buses empty.
IoNew ==
    /\ mmio_bus = {}
    /\ pio_bus = {}
    /\ io_pre = NoBuses
    /\ io_call = IoIdleCall
    /\ io_ret = IoNoRet
    /\ threads = [t \in Thread |-> ThreadIdle]

\* Bus::new
Init ==
    /\ devices = {}
    /\ panicked = FALSE
    /\ pre = {}
    /\ call = NoCall
    /\ ret = Unit
    /\ IoNew

Register ==
    \E r \in ValidRanges, d \in Dev :
        /\ ~panicked
        /\ pre' = devices
        /\ call' = [NoCall EXCEPT !.op = "register", !.range = r, !.device = d]
        /\ devices' = register_bus(devices, r, d)
        /\ ret' = [Unit EXCEPT !.tag = register_result(devices, r)]
        /\ panicked' = (register_result(devices, r) = "Panic")
        /\ UNCHANGED iovars

Unregister ==
    \E a \in Addr :
        /\ ~panicked
        /\ pre' = devices
        /\ call' = [NoCall EXCEPT !.op = "unregister", !.addr = a]
        /\ devices' = unregister_bus(devices, a)
        /\ ret' = unregister_result(devices, a)
        /\ UNCHANGED <<panicked, iovars>>

Device ==
    \E a \in Addr :
        /\ ~panicked
        /\ pre' = devices
        /\ call' = [NoCall EXCEPT !.op = "device", !.addr = a]
        /\ ret' = device(devices, a)
        /\ UNCHANGED <<devices, panicked, iovars>>

CheckAccess ==
    \E a \in Addr, n \in 0..MaxLen :
        /\ ~panicked
        /\ pre' = devices
        /\ call' = [NoCall EXCEPT !.op = "check_access", !.addr = a, !.len = n]
        /\ ret' = check_access(devices, a, n)
        /\ UNCHANGED <<devices, panicked, iovars>>

Next ==
    \/ Register
    \/ Unregister
    \/ Device
    \/ CheckAccess

Spec == Init /\ [][Next]_vars

\* BusRange::overlaps is pure: its inputs are drawn by the initial state and
\* one step applies it.
Pending == [tag |-> "pending", range |-> NoRange, device |-> NoDev]

InitOverlaps ==
    /\ devices = {}
    /\ panicked = FALSE
    /\ pre = {}
    /\ call \in {[NoCall EXCEPT !.op = "overlaps", !.range = a, !.other = b] :
                     a \in ValidRanges, b \in ValidRanges}
    /\ ret = Pending
    /\ IoNew

Overlaps ==
    /\ call.op = "overlaps"
    /\ ret = Pending
    /\ ret' = [Unit EXCEPT !.tag = IF overlaps(call.range, call.other)
                                   THEN "true" ELSE "false"]
    /\ UNCHANGED <<devices, panicked, pre, call, iovars>>

NextOverlaps == Overlaps

SpecOverlaps == InitOverlaps /\ [][NextOverlaps]_vars

\* BusRange::new is pure as well: base and size are drawn by the initial
\* state (call.addr, call.len) and one step applies it.
InitNew ==
    /\ devices = {}
    /\ panicked = FALSE
    /\ pre = {}
    /\ call \in {[NoCall EXCEPT !.op = "BusRange::new", !.addr = b, !.len = s] :
                     b \in Addr, s \in 0..MaxAddr}
    /\ ret = Pending
    /\ IoNew

New ==
    /\ call.op = "BusRange::new"
    /\ ret = Pending
    /\ ret' = IF BusRange_new(call.addr, call.len) = NoRange
              THEN [Unit EXCEPT !.tag = "InvalidRange"]
              ELSE [Unit EXCEPT !.range = BusRange_new(call.addr, call.len)]
    /\ UNCHANGED <<devices, panicked, pre, call, iovars>>

InitPure == InitOverlaps \/ InitNew

NextPure ==
    \/ Overlaps
    \/ New

SpecPure == InitPure /\ [][NextPure]_vars

(***************************************************************************)
(* IoManager (src/src/device_manager.rs): one MMIO bus and one PIO bus,    *)
(* registration from resource descriptors and read / write dispatch.       *)
(***************************************************************************)

\* Resource descriptors: the two address-range variants and LegacyIrq.
LegacyIrq == [kind |-> "irq", base |-> 0, size |-> 0]

\* The MMIO descriptors callers pass: two ranges that overlap, [0,1] and
\* [1,2], one apart from them at the top of the domain, one whose end
\* overflows the domain and one of size zero.
MmioDescriptors ==
    {[kind |-> "mmio", base |-> d[1], size |-> d[2]] :
        d \in {<<0, 2>>, <<1, 2>>, <<MaxAddr, 1>>, <<MaxAddr, 2>>, <<0, 0>>}}

\* The PIO descriptors callers pass: two disjoint ranges and one of size zero.
PioDescriptors ==
    {[kind |-> "pio", base |-> d[1], size |-> d[2]] :
        d \in {<<0, 2>>, <<MaxAddr, 1>>, <<0, 0>>}}

Resources == MmioDescriptors \cup PioDescriptors \cup {LegacyIrq}

\* The slices of descriptors a caller passes.
ResourceLists ==
    {<<>>} \cup {<<a>> : a \in Resources}
           \cup {<<a, b>> : a \in Resources, b \in Resources}

\* The loop of register_mmio_resources (kind "mmio") and of
\* register_pio_resources (kind "pio"), from descriptor i on: the buses
\* afterwards, the result, and the descriptor at which the call ended.
RECURSIVE register_loop_any_kind(_, _, _, _, _)
register_loop_any_kind(kind, buses, dev, resources, i) ==
    IF i > Len(resources)
    THEN [buses |-> buses, tag |-> "Ok", at |-> 0, phase |-> kind]
    ELSE LET res == resources[i]
             range == BusRange_new(res.base, res.size)
         IN  IF res.kind = "irq"
             THEN register_loop_any_kind(kind, buses, dev, resources, i + 1)
             ELSE IF range = NoRange
             THEN [buses |-> buses, tag |-> "Panic", at |-> i, phase |-> kind]
             ELSE IF register_result(buses[kind], range) = "Ok"
             THEN register_loop_any_kind(
                      kind,
                      [buses EXCEPT ![kind] = register_bus(buses[kind], range, dev)],
                      dev, resources, i + 1)
             ELSE [buses |-> [buses EXCEPT
                                  ![kind] = register_bus(buses[kind], range, dev)],
                   tag |-> register_result(buses[kind], range),
                   at |-> i, phase |-> kind]

RECURSIVE register_loop_continue(_, _, _, _, _)
register_loop_continue(kind, buses, dev, resources, i) ==
    IF i > Len(resources)
    THEN [buses |-> buses, tag |-> "Ok", at |-> 0, phase |-> kind]
    ELSE LET res == resources[i]
             range == BusRange_new(res.base, res.size)
         IN  IF res.kind # kind
             THEN register_loop_continue(kind, buses, dev, resources, i + 1)
             ELSE IF range = NoRange
             THEN [buses |-> buses, tag |-> "Panic", at |-> i, phase |-> kind]
             ELSE IF register_result(buses[kind], range) = "Ok"
             THEN register_loop_continue(
                      kind,
                      [buses EXCEPT ![kind] = register_bus(buses[kind], range, dev)],
                      dev, resources, i + 1)
             ELSE [register_loop_continue(
                       kind,
                       [buses EXCEPT
                            ![kind] = register_bus(buses[kind], range, dev)],
                       dev, resources, i + 1)
                   EXCEPT !.tag = register_result(buses[kind], range), !.at = i]

RECURSIVE register_loop(_, _, _, _, _)
register_loop(kind, buses, dev, resources, i) ==
    IF i > Len(resources)
    THEN [buses |-> buses, tag |-> "Ok", at |-> 0, phase |-> kind]
    ELSE LET res == resources[i]
             range == BusRange_new(res.base, res.size)
         IN  IF res.kind # kind
             THEN register_loop(kind, buses, dev, resources, i + 1)
             ELSE IF range = NoRange
             THEN [buses |-> buses, tag |-> "Panic", at |-> i, phase |-> kind]
             ELSE IF register_result(buses[kind], range) = "Ok"
             THEN register_loop(
                      kind,
                      [buses EXCEPT ![kind] = register_bus(buses[kind], range, dev)],
                      dev, resources, i + 1)
             ELSE [buses |-> [buses EXCEPT
                                  ![kind] = register_bus(buses[kind], range, dev)],
                   tag |-> register_result(buses[kind], range),
                   at |-> i, phase |-> kind]

\* IoManager::register_resources: the MMIO registration, then the PIO one.
register_resources_pio_first(buses, dev, resources) ==
    LET first == register_loop("pio", buses, dev, resources, 1)
    IN  IF first.tag # "Ok" THEN first
        ELSE register_loop("mmio", first.buses, dev, resources, 1)

register_resources(buses, dev, resources) ==
    LET first == register_loop("mmio", buses, dev, resources, 1)
    IN  IF first.tag # "Ok" THEN first
        ELSE register_loop("pio", first.buses, dev, resources, 1)

\* The loop of unregister_resources from descriptor i on: the buses
\* afterwards, the count, and the buses before each descriptor.
RECURSIVE unregister_loop_stop(_, _, _, _, _)
unregister_loop_stop(buses, resources, i, count, steps) ==
    IF i > Len(resources)
    THEN [buses |-> buses, count |-> count, steps |-> Append(steps, buses)]
    ELSE LET res == resources[i]
         IN  IF res.kind = "irq"
             THEN unregister_loop_stop(buses, resources, i + 1, count,
                                       Append(steps, buses))
             ELSE IF unregister_result(buses[res.kind], res.base).tag = "None"
             THEN [buses |-> buses, count |-> count,
                   steps |-> Append(steps, buses)]
             ELSE unregister_loop_stop(
                      [buses EXCEPT
                           ![res.kind] = unregister_bus(buses[res.kind], res.base)],
                      resources, i + 1, count + 1, Append(steps, buses))

RECURSIVE unregister_loop_mmio_only(_, _, _, _, _)
unregister_loop_mmio_only(buses, resources, i, count, steps) ==
    IF i > Len(resources)
    THEN [buses |-> buses, count |-> count, steps |-> Append(steps, buses)]
    ELSE LET res == resources[i]
         IN  IF res.kind # "mmio"
             THEN unregister_loop_mmio_only(buses, resources, i + 1, count,
                                            Append(steps, buses))
             ELSE unregister_loop_mmio_only(
                      [buses EXCEPT
                           ![res.kind] = unregister_bus(buses[res.kind], res.base)],
                      resources, i + 1,
                      IF unregister_result(buses[res.kind], res.base).tag = "Some"
                      THEN count + 1 ELSE count,
                      Append(steps, buses))

RECURSIVE unregister_loop(_, _, _, _, _)
unregister_loop(buses, resources, i, count, steps) ==
    IF i > Len(resources)
    THEN [buses |-> buses, count |-> count, steps |-> Append(steps, buses)]
    ELSE LET res == resources[i]
         IN  IF res.kind = "irq"
             THEN unregister_loop(buses, resources, i + 1, count,
                                  Append(steps, buses))
             ELSE unregister_loop(
                      [buses EXCEPT
                           ![res.kind] = unregister_bus(buses[res.kind], res.base)],
                      resources, i + 1,
                      IF unregister_result(buses[res.kind], res.base).tag = "Some"
                      THEN count + 1 ELSE count,
                      Append(steps, buses))

\* mmio_read / mmio_write / pio_read / pio_write: check_access, then the
\* device's method with (range.base(), addr - range.base(), data).
dispatch_absolute(bus, op, addr, len) ==
    LET chk == check_access(bus, addr, len)
    IN  IF chk.tag = "Ok"
        THEN [tag |-> "Ok",
              calls |-> <<[device |-> chk.device, op |-> op,
                           base |-> chk.range.base,
                           offset |-> addr, len |-> len]>>]
        ELSE [tag |-> chk.tag, calls |-> <<>>]

dispatch_unchecked(bus, op, addr, len) ==
    LET chk == check_access(bus, addr, len)
        found == device(bus, addr)
    IN  IF found.tag = "Some"
        THEN [tag |-> chk.tag,
              calls |-> <<[device |-> found.device, op |-> op,
                           base |-> found.range.base,
                           offset |-> addr - found.range.base, len |-> len]>>]
        ELSE [tag |-> chk.tag, calls |-> <<>>]

dispatch(bus, op, addr, len) ==
    LET chk == check_access(bus, addr, len)
    IN  IF chk.tag = "Ok"
        THEN [tag |-> "Ok",
              calls |-> <<[device |-> chk.device, op |-> op,
                           base |-> chk.range.base,
                           offset |-> addr - chk.range.base, len |-> len]>>]
        ELSE [tag |-> chk.tag, calls |-> <<>>]

Buses == [mmio |-> mmio_bus, pio |-> pio_bus]

Idle == io_call.op = "idle"

\* The caller hands a finished registration to the effects on the state.
Registered(op, d, rs, out) ==
    /\ io_pre' = Buses
    /\ io_call' = [IoIdleCall EXCEPT !.op = op, !.device = d, !.resources = rs]
    /\ mmio_bus' = out.buses.mmio
    /\ pio_bus' = out.buses.pio
    /\ io_ret' = [IoNoRet EXCEPT !.tag = out.tag, !.at = out.at,
                                 !.phase = out.phase]
    /\ UNCHANGED <<busvars, threads>>

RegisterMmioResources ==
    \E d \in Dev, rs \in ResourceLists :
        /\ Idle
        /\ Registered("register_mmio_resources", d, rs,
                      register_loop("mmio", Buses, d, rs, 1))

RegisterPioResources ==
    \E d \in Dev, rs \in ResourceLists :
        /\ Idle
        /\ Registered("register_pio_resources", d, rs,
                      register_loop("pio", Buses, d, rs, 1))

RegisterResources ==
    \E d \in Dev, rs \in ResourceLists :
        /\ Idle
        /\ Registered("register_resources", d, rs,
                      register_resources(Buses, d, rs))

Unregistered(op, rs, out) ==
    /\ io_call' = [io_call EXCEPT !.op = op, !.after = io_call.op,
                                  !.resources = rs]
    /\ mmio_bus' = out.buses.mmio
    /\ pio_bus' = out.buses.pio
    /\ io_ret' = [IoNoRet EXCEPT !.count = out.count, !.steps = out.steps]
    /\ UNCHANGED <<busvars, threads>>

UnregisterResources ==
    \E rs \in ResourceLists :
        /\ Idle
        /\ io_pre' = Buses
        /\ Unregistered("unregister_resources", rs,
                        unregister_loop(Buses, rs, 1, 0, <<>>))

\* unregister_resources called with the descriptors of the registration that
\* has just succeeded (tests::test_register_unregister_device_io); io_pre
\* stays the state before the registration.
UnregisterRegistered ==
    /\ io_call.op \in {"register_mmio_resources", "register_pio_resources",
                       "register_resources"}
    /\ io_ret.tag = "Ok"
    /\ UNCHANGED io_pre
    /\ Unregistered("unregister_registered", io_call.resources,
                    unregister_loop(Buses, io_call.resources, 1, 0, <<>>))

Dispatched(op, a, n, out) ==
    /\ io_pre' = Buses
    /\ io_call' = [IoIdleCall EXCEPT !.op = op, !.addr = a, !.len = n]
    /\ io_ret' = [IoNoRet EXCEPT !.tag = out.tag, !.calls = out.calls]
    /\ UNCHANGED <<mmio_bus, pio_bus, busvars, threads>>

\* data.len() is a usize: never wider than the MMIO value type (u64), wider
\* than the PIO one.
MmioRead ==
    \E a \in Addr, n \in 0..MaxAddr :
        Idle /\ Dispatched("mmio_read", a, n, dispatch(mmio_bus, "mmio_read", a, n))

MmioWrite ==
    \E a \in Addr, n \in 0..MaxAddr :
        Idle /\ Dispatched("mmio_write", a, n, dispatch(mmio_bus, "mmio_write", a, n))

PioRead ==
    \E a \in Addr, n \in 0..MaxLen :
        Idle /\ Dispatched("pio_read", a, n, dispatch(pio_bus, "pio_read", a, n))

PioWrite ==
    \E a \in Addr, n \in 0..MaxLen :
        Idle /\ Dispatched("pio_write", a, n, dispatch(pio_bus, "pio_write", a, n))

\* The call has returned and the caller goes on to its next call; after a
\* panic there is no next call.
Return ==
    /\ ~Idle
    /\ io_ret.tag # "Panic"
    /\ io_call' = IoIdleCall
    /\ io_ret' = IoNoRet
    /\ io_pre' = NoBuses
    /\ UNCHANGED <<mmio_bus, pio_bus, busvars, threads>>

NextIo ==
    \/ RegisterMmioResources
    \/ RegisterPioResources
    \/ RegisterResources
    \/ UnregisterResources
    \/ UnregisterRegistered
    \/ MmioRead
    \/ MmioWrite
    \/ PioRead
    \/ PioWrite
    \/ Return

SpecIo == Init /\ [][NextIo]_vars

(***************************************************************************)
(* Shared access to the IoManager.  pio_device, mmio_device, check_access  *)
(* and the four dispatch methods take &self, so several of them can be in  *)
(* flight at once; the registration methods take &mut self, so the borrow  *)
(* rules let them run only while no shared reference is in use.  A call    *)
(* is cut where it reads the map: the lookup, and afterwards the uses of   *)
(* the references the lookup returned.                                     *)
(***************************************************************************)
SharedOps == {"mmio_device", "pio_device",
              "mmio_check_access", "pio_check_access",
              "mmio_read", "mmio_write", "pio_read", "pio_write"}

KindOf(op) ==
    IF op \in {"mmio_device", "mmio_check_access", "mmio_read", "mmio_write"}
    THEN "mmio" ELSE "pio"

IsLookup(op) == op \in {"mmio_device", "pio_device"}

IsCheck(op) == op \in {"mmio_check_access", "pio_check_access"}

\* The lengths the contexts pass: one unit, two units.
SharedLens == {1, 2}

\* check_access before it reads the bus: the conversion of len, then
\* BusRange::new(addr, size).
access_range_result(addr, len) ==
    IF len > MaxAddr THEN "InvalidAccessLength"
    ELSE IF BusRange_new(addr, len) = NoRange THEN "InvalidRange"
    ELSE "Ok"

\* Bus::device borrows the map: the map after the lookup.
after_lookup_takes_entry(bus, addr) == unregister_bus(bus, addr)

after_lookup(bus, addr) == bus

\* The references Bus::device returns point into the map: the entry is
\* named by its key.
lookup(bus, addr) ==
    LET found == device(bus, addr)
    IN  [tag |-> found.tag, base |-> found.range.base]

\* What a call returns when it ends without a device.
without_device(op, tag) ==
    IF IsLookup(op) \/ IsCheck(op)
    THEN [tag |-> tag, range |-> NoRange, device |-> NoDev]
    ELSE [tag |-> tag, calls |-> <<>>]

\* The rest of a call, read through the references to the entry e: the
\* filter of check_access on range.last(), then the device's method with
\* (range.base(), addr - range.base(), data).
through_references(op, e, addr, len) ==
    IF IsLookup(op)
    THEN [tag |-> "Some", range |-> e.range, device |-> e.device]
    ELSE IF last(e.range) >= last(BusRange_new(addr, len))
    THEN IF IsCheck(op)
         THEN [tag |-> "Ok", range |-> e.range, device |-> e.device]
         ELSE [tag |-> "Ok",
               calls |-> <<[device |-> e.device, op |-> op,
                            base |-> e.range.base,
                            offset |-> addr - e.range.base, len |-> len]>>]
    ELSE without_device(op, "DeviceNotFound")

\* No shared reference to the IoManager is in use.
Quiescent == \A t \in Thread : threads[t].pc = "idle"

\* register_resources under &mut self; a panic ends the program.
ExclusiveRegister ==
    /\ Quiescent
    /\ \E d \in Dev, rs \in ResourceLists :
           LET out == register_resources(Buses, d, rs)
           IN  /\ out.tag # "Panic"
               /\ mmio_bus' = out.buses.mmio
               /\ pio_bus' = out.buses.pio
    /\ UNCHANGED <<busvars, io_pre, io_call, io_ret, threads>>

\* unregister_resources under &mut self.
ExclusiveUnregister ==
    /\ Quiescent
    /\ \E rs \in ResourceLists :
           LET out == unregister_loop(Buses, rs, 1, 0, <<>>)
           IN  /\ mmio_bus' = out.buses.mmio
               /\ pio_bus' = out.buses.pio
    /\ UNCHANGED <<busvars, io_pre, io_call, io_ret, threads>>

\* A context enters a &self method: the checks on its own arguments, then
\* the lookup in the map.
SharedCall(t) ==
    /\ threads[t].pc = "idle"
    /\ UNCHANGED <<busvars, io_pre, io_call, io_ret>>
    /\ \E op \in SharedOps, a \in Addr :
       \E n \in IF IsLookup(op) THEN {0} ELSE SharedLens :
        LET checked == IF IsLookup(op) THEN "Ok" ELSE access_range_result(a, n)
            ref == lookup(Buses[KindOf(op)], a)
            me == [ThreadIdle EXCEPT !.op = op, !.addr = a, !.len = n,
                                     !.start = Buses]
        IN  /\ threads' = [threads EXCEPT ![t] =
                   IF checked # "Ok"
                   THEN [me EXCEPT !.pc = "done",
                                   !.ret = without_device(op, checked)]
                   ELSE IF ref.tag = "None"
                   THEN [me EXCEPT !.pc = "done",
                                   !.ret = without_device(op,
                                       IF IsLookup(op) THEN "None"
                                       ELSE "DeviceNotFound")]
                   ELSE [me EXCEPT !.pc = "found", !.found = ref]]
            /\ mmio_bus' = IF checked = "Ok" /\ KindOf(op) = "mmio"
                           THEN after_lookup(mmio_bus, a) ELSE mmio_bus
            /\ pio_bus' = IF checked = "Ok" /\ KindOf(op) = "pio"
                          THEN after_lookup(pio_bus, a) ELSE pio_bus

\* The context goes on through the references it holds.
SharedFinish(t) ==
    /\ threads[t].pc = "found"
    /\ \E e \in Buses[KindOf(threads[t].op)] :
           /\ e.range.base = threads[t].found.base
           /\ threads' = [threads EXCEPT
                  ![t].pc = "done",
                  ![t].ret = through_references(threads[t].op, e,
                                 threads[t].addr, threads[t].len)]
    /\ UNCHANGED <<busvars, mmio_bus, pio_bus, io_pre, io_call, io_ret>>

\* The method returns to its caller.
SharedReturn(t) ==
    /\ threads[t].pc = "done"
    /\ threads' = [threads EXCEPT ![t] = ThreadIdle]
    /\ UNCHANGED <<busvars, mmio_bus, pio_bus, io_pre, io_call, io_ret>>

NextShared ==
    \/ ExclusiveRegister
    \/ ExclusiveUnregister
    \/ \E t \in Thread : SharedCall(t)
    \/ \E t \in Thread : SharedFinish(t)
    \/ \E t \in Thread : SharedReturn(t)

SpecShared == Init /\ [][NextShared]_vars

(***************************************************************************)
(* Vocabulary of the properties: intervals as sets of addresses.           *)
(***************************************************************************)
Span(r) == {a \in Addr : r.base <= a /\ a <= r.base + r.size - 1}

Disjoint(a, b) == a.base > b.base + b.size - 1 \/ a.base + a.size - 1 < b.base

Covering(bus, addr) == {e \in bus : addr \in Span(e.range)}

None == [tag |-> "None", range |-> NoRange, device |-> NoDev]

Some(e) == [tag |-> "Some", range |-> e.range, device |-> e.device]

\* C1: after any sequence of register and unregister calls from the empty
\* Bus, no two stored ranges overlap as intervals.
C1_NoStoredOverlap ==
    \A a \in devices, b \in devices :
        a # b => (a.range.base > last(b.range) \/ last(a.range) < b.range.base)

\* C2: register(r, device) with r overlapping at least one stored range
\* returns DeviceOverlap and leaves the stored pairs unchanged.
C2_OverlapRejected ==
    (call.op = "register" /\ \E e \in pre : ~Disjoint(call.range, e.range))
        => (ret.tag = "DeviceOverlap" /\ devices = pre)

\* C3: register(r, device) with r overlapping none of the stored ranges
\* succeeds, and afterwards device(a) is (r, device) for every a in r.
C3_DisjointAccepted ==
    (call.op = "register" /\ \A e \in pre : Disjoint(call.range, e.range))
        => /\ ret.tag = "Ok"
           /\ \A a \in Span(call.range) :
                  device(devices, a) =
                      [tag |-> "Some", range |-> call.range, device |-> call.device]

\* C4: device(addr) returns the stored pair whose interval contains addr when
\* there is one, and none otherwise.
C4_DeviceIsContainment ==
    call.op = "device" =>
        IF Covering(pre, call.addr) = {} THEN ret = None
        ELSE \E e \in Covering(pre, call.addr) : ret = Some(e)

\* C5: the assertion of register never fails: a range that passed the
\* overlap scan never has the base of an already stored range.
C5_AssertNeverFails == ~panicked

\* C6: a.overlaps(b) is true exactly when the intervals of a and b share an
\* address, i.e. when not (a.base > b.last or a.last < b.base).
C6_OverlapsIsIntersection ==
    (call.op = "overlaps" /\ ret # Pending)
        => ((ret.tag = "true") <=> ~Disjoint(call.range, call.other))

\* C7: unregister(addr) with addr covered by a stored range r with device d
\* returns exactly (r, d), removes that entry and no other, and afterwards
\* device(a) is none for every a in r.
C7_UnregisterCovered ==
    call.op = "unregister" =>
        \A e \in Covering(pre, call.addr) :
            /\ ret = Some(e)
            /\ devices = pre \ {e}
            /\ \A a \in Span(e.range) : device(devices, a) = None

\* C8: unregister(addr) with addr covered by no stored range returns none and
\* leaves the stored pairs unchanged.
C8_UnregisterUncovered ==
    (call.op = "unregister" /\ Covering(pre, call.addr) = {})
        => (ret = None /\ devices = pre)

\* A range is stored, the address lies in a gap or past it, and the call
\* returned none.
C8_Witness ==
    /\ call.op = "unregister"
    /\ pre # {}
    /\ \E e \in pre : e.range.base < call.addr
    /\ Covering(pre, call.addr) = {}
    /\ ret = None
    /\ devices = pre

\* C9: check_access(addr, len) fails with DeviceNotFound whenever addr is
\* covered by a stored range r but addr + len - 1 exceeds r.last (without
\* overflowing the domain).
C9_SpanPastRangeFails ==
    (/\ call.op = "check_access"
     /\ call.len >= 1
     /\ call.addr + call.len - 1 <= MaxAddr
     /\ \E e \in Covering(pre, call.addr) :
            call.addr + call.len - 1 > last(e.range))
        => ret.tag = "DeviceNotFound"

\* The stored range that owns addr: among the stored ranges starting at or
\* below addr, the one with the greatest base, provided it reaches addr.
Owner(bus, addr) ==
    {e \in Covering(bus, addr) :
        \A f \in bus : f.range.base <= addr => f.range.base <= e.range.base}

\* C9 (amended): check_access(addr, len) fails with DeviceNotFound whenever
\* len is representable in the domain's value type, addr + len - 1 does not
\* overflow the domain, and addr + len - 1 exceeds the last address of the
\* range that owns addr.
C9_SpanPastOwnerFails ==
    (/\ call.op = "check_access"
     /\ call.len >= 1
     /\ call.len <= MaxAddr
     /\ call.addr + call.len - 1 <= MaxAddr
     /\ \E e \in Owner(pre, call.addr) :
            call.addr + call.len - 1 > last(e.range))
        => ret.tag = "DeviceNotFound"

\* The access starts inside its owning range, runs past its end, and its
\* last address belongs to another stored range; the call failed.
C9_Witness ==
    /\ call.op = "check_access"
    /\ call.len >= 1
    /\ call.len <= MaxAddr
    /\ call.addr + call.len - 1 <= MaxAddr
    /\ \E e \in Owner(pre, call.addr) :
           /\ call.addr + call.len - 1 > last(e.range)
           /\ \E f \in pre \ {e} : (call.addr + call.len - 1) \in Span(f.range)
    /\ ret.tag = "DeviceNotFound"

\* C10: when check_access(addr, len) succeeds, the returned range r is stored,
\* r.base <= addr and addr + len - 1 <= r.last, and the returned device is the
\* one stored with r.
C10_AccessInsideOneRange ==
    (call.op = "check_access" /\ ret.tag = "Ok")
        => /\ [range |-> ret.range, device |-> ret.device] \in devices
           /\ ret.range.base <= call.addr
           /\ call.addr + call.len - 1 <= last(ret.range)

\* A successful access whose span is exactly the full registered range.
C10_Witness ==
    /\ call.op = "check_access"
    /\ ret.tag = "Ok"
    /\ ret.range.size > 1
    /\ call.addr = ret.range.base
    /\ call.len = ret.range.size

\* C11: Range::new(base, size) fails with InvalidRange exactly when size = 0
\* or base + (size - 1), computed without wraparound, exceeds the maximum
\* address; otherwise it yields the range with that base and size.
C11_NewChecksOverflow ==
    (call.op = "BusRange::new" /\ ret # Pending)
        => /\ (ret.tag = "InvalidRange")
                  <=> (call.len = 0 \/ call.addr + (call.len - 1) > MaxAddr)
           /\ ret.tag \in {"InvalidRange", "Ok"}
           /\ ret.tag = "Ok" => ret.range = [base |-> call.addr, size |-> call.len]

\* A range based one below the maximum address whose end passes it: rejected.
C11_Witness ==
    /\ call.op = "BusRange::new"
    /\ call.addr = MaxAddr - 1
    /\ call.len >= 3
    /\ ret.tag = "InvalidRange"

\* C19: check_access(addr, len) checks in a fixed order, whatever is stored:
\* InvalidAccessLength when len is not a value of the domain; otherwise
\* InvalidRange when len = 0 or addr + len - 1 overflows; only otherwise can
\* it fail with DeviceNotFound.
C19_CheckOrder ==
    call.op = "check_access" =>
        IF call.len > MaxAddr THEN ret.tag = "InvalidAccessLength"
        ELSE IF call.len = 0 \/ call.addr + call.len - 1 > MaxAddr
        THEN ret.tag = "InvalidRange"
        ELSE ret.tag \in {"Ok", "DeviceNotFound"}

\* An access that overflows the domain from an address a stored range covers:
\* InvalidRange.
C19_Witness ==
    /\ call.op = "check_access"
    /\ call.len \in 1..MaxAddr
    /\ call.addr + call.len - 1 > MaxAddr
    /\ Covering(pre, call.addr) # {}
    /\ ret.tag = "InvalidRange"

(***************************************************************************)
(* Vocabulary of the IoManager properties.                                 *)
(***************************************************************************)
DispatchOps == {"mmio_read", "mmio_write", "pio_read", "pio_write"}

\* The bus a dispatch operation consults, as it was when the call started.
BusOf(op) == IF op \in {"mmio_read", "mmio_write"} THEN io_pre.mmio ELSE io_pre.pio

OtherKind(kind) == IF kind = "mmio" THEN "pio" ELSE "mmio"

\* The entries that the descriptors 1..upto of the given kind stand for.
EntriesOf(rs, kind, dev, upto) ==
    {[range |-> [base |-> rs[i].base, size |-> rs[i].size], device |-> dev] :
        i \in {j \in 1..upto : j <= Len(rs) /\ rs[j].kind = kind}}

\* C12: a successful read / write invokes exactly once the device stored with
\* the range owning addr, with that range's base, offset = addr - base and
\* the requested length.
C12_DispatchToOwner ==
    (io_call.op \in DispatchOps /\ io_ret.tag = "Ok")
        => /\ Len(io_ret.calls) = 1
           /\ \E e \in Owner(BusOf(io_call.op), io_call.addr) :
                  io_ret.calls[1] =
                      [device |-> e.device, op |-> io_call.op,
                       base |-> e.range.base,
                       offset |-> io_call.addr - e.range.base,
                       len |-> io_call.len]

\* A dispatch into the middle of a range: the device sees a non-zero offset.
C12_Witness ==
    /\ io_call.op \in DispatchOps
    /\ io_ret.tag = "Ok"
    /\ Len(io_ret.calls) = 1
    /\ io_ret.calls[1].offset > 0
    /\ io_ret.calls[1].base > 0

\* C13: a read / write that fails invokes no device at all.
C13_FailedDispatchCallsNothing ==
    (io_call.op \in DispatchOps /\ io_ret.tag # "Ok") => io_ret.calls = <<>>

\* An access that starts inside a range and crosses its end: DeviceNotFound
\* and no device call.
C13_Witness ==
    /\ io_call.op \in DispatchOps
    /\ io_ret.tag = "DeviceNotFound"
    /\ io_call.len >= 1
    /\ \E e \in Owner(BusOf(io_call.op), io_call.addr) :
           io_call.addr + io_call.len - 1 > last(e.range)
    /\ io_ret.calls = <<>>

\* C14: when register_mmio_resources / register_pio_resources returns the
\* failure of descriptor k, the matching descriptors before k are registered
\* (no rollback), none after k is, and the other bus is untouched.
C14_NoRollbackNoContinuation ==
    (/\ io_call.op \in {"register_mmio_resources", "register_pio_resources"}
     /\ io_ret.tag = "DeviceOverlap")
        => /\ io_ret.at \in 1..Len(io_call.resources)
           /\ io_call.resources[io_ret.at].kind = io_ret.phase
           /\ Buses[io_ret.phase] =
                  io_pre[io_ret.phase]
                      \cup EntriesOf(io_call.resources, io_ret.phase,
                                     io_call.device, io_ret.at - 1)
           /\ Buses[OtherKind(io_ret.phase)] = io_pre[OtherKind(io_ret.phase)]

\* The second descriptor failed and the first one, of the same kind, stays
\* registered.
C14_Witness ==
    /\ io_call.op \in {"register_mmio_resources", "register_pio_resources"}
    /\ io_ret.tag = "DeviceOverlap"
    /\ io_ret.at = 2
    /\ io_call.resources[1].kind = io_ret.phase
    /\ Buses[io_ret.phase] # io_pre[io_ret.phase]

\* C15: every failure is returned as an error value; no operation panics.
C15_NoPanic == io_ret.tag # "Panic"

\* C16: register_mmio_resources registers only the MMIO descriptors and
\* leaves the PIO bus unchanged; other descriptors are skipped without error
\* (symmetrically for register_pio_resources).
C16_OnlyOwnKind ==
    (/\ io_call.op \in {"register_mmio_resources", "register_pio_resources"}
     /\ io_ret.tag # "Panic")
        => /\ Buses[OtherKind(io_ret.phase)] = io_pre[OtherKind(io_ret.phase)]
           /\ io_pre[io_ret.phase] \subseteq Buses[io_ret.phase]
           /\ Buses[io_ret.phase] \ io_pre[io_ret.phase]
                  \subseteq EntriesOf(io_call.resources, io_ret.phase,
                                      io_call.device, Len(io_call.resources))
           /\ (\A i \in 1..Len(io_call.resources) :
                   io_call.resources[i].kind # io_ret.phase)
                  => (io_ret.tag = "Ok" /\ Buses = io_pre)

\* A list with a descriptor of the other domain that the other bus would
\* have accepted: the call succeeds and registers only its own descriptor.
C16_Witness ==
    /\ io_call.op \in {"register_mmio_resources", "register_pio_resources"}
    /\ io_ret.tag = "Ok"
    /\ Len(io_call.resources) = 2
    /\ \E i \in 1..2 :
           /\ io_call.resources[i].kind = OtherKind(io_ret.phase)
           /\ io_call.resources[i].size > 0
           /\ io_pre[OtherKind(io_ret.phase)] = {}
    /\ Buses[io_ret.phase] # io_pre[io_ret.phase]

\* C17: unregister_resources processes every descriptor: an address-range
\* descriptor removes from its own bus the range owning its base, if there is
\* one at that moment, and counts one; any other descriptor or a failed
\* lookup changes nothing; the result is the number of removals.
C17_CountsRemovals ==
    io_call.op = "unregister_resources" =>
        LET rs == io_call.resources
            st == io_ret.steps
        IN  /\ Len(st) = Len(rs) + 1
            /\ st[1] = io_pre
            /\ st[Len(rs) + 1] = Buses
            /\ \A i \in 1..Len(rs) :
                   IF rs[i].kind = "irq" THEN st[i + 1] = st[i]
                   ELSE /\ st[i + 1][rs[i].kind] =
                               st[i][rs[i].kind] \ Owner(st[i][rs[i].kind], rs[i].base)
                        /\ st[i + 1][OtherKind(rs[i].kind)] =
                               st[i][OtherKind(rs[i].kind)]
            /\ io_ret.count =
                   Cardinality({i \in 1..Len(rs) :
                                   /\ rs[i].kind # "irq"
                                   /\ Owner(st[i][rs[i].kind], rs[i].base) # {}})

\* The first descriptor finds nothing to unregister, the second one does.
C17_Witness ==
    /\ io_call.op = "unregister_resources"
    /\ Len(io_call.resources) = 2
    /\ io_call.resources[1].kind # "irq"
    /\ io_ret.steps[2] = io_ret.steps[1]
    /\ io_ret.steps[3] # io_ret.steps[2]
    /\ io_ret.count = 1

\* The descriptors of the registration that has just succeeded, by kind
\* registered.
RegisteredKinds ==
    IF io_call.after = "register_mmio_resources" THEN {"mmio"}
    ELSE IF io_call.after = "register_pio_resources" THEN {"pio"}
    ELSE {"mmio", "pio"}

RegisteredCount ==
    Cardinality({i \in 1..Len(io_call.resources) :
                    io_call.resources[i].kind \in RegisteredKinds})

\* C18: after a successful registration of R, unregister_resources(R) returns
\* the number of address-range descriptors of R that were registered and
\* restores both buses.
C18_RoundTrip ==
    io_call.op = "unregister_registered"
        => (io_ret.count = RegisteredCount /\ Buses = io_pre)

\* No address-range descriptor of R that the registration skipped has its
\* base owned by a range of its bus.
SkippedFindNothing ==
    \A i \in 1..Len(io_call.resources) :
        LET res == io_call.resources[i]
        IN  (res.kind # "irq" /\ res.kind \notin RegisteredKinds)
                => Owner(io_pre[res.kind], res.base) = {}

\* C18 (amended): the round trip holds when no address-range descriptor of R
\* of the domain that was not registered has its base owned by a range of
\* that domain's bus.
C18_RoundTripOwnKind ==
    (io_call.op = "unregister_registered" /\ SkippedFindNothing)
        => (io_ret.count = RegisteredCount /\ Buses = io_pre)

\* A registration of one domain whose list also holds a descriptor of the
\* other domain, into a manager that already held ranges: all restored.
C18_Witness ==
    /\ io_call.op = "unregister_registered"
    /\ io_call.after # "register_resources"
    /\ SkippedFindNothing
    /\ io_ret.count = 1
    /\ Len(io_call.resources) = 2
    /\ \E i \in 1..2 : io_call.resources[i].kind \notin RegisteredKinds \cup {"irq"}
    /\ io_pre.mmio # {}
    /\ io_pre.pio # {}
    /\ Buses = io_pre

\* C20: register_resources registers the MMIO descriptors first: when that
\* fails, the failure is returned, the MMIO ranges registered before it stay
\* and the PIO bus is unchanged; when the PIO registration fails, every MMIO
\* range of R stays registered.
C20_MmioThenPio ==
    (io_call.op = "register_resources" /\ io_ret.tag = "DeviceOverlap")
        => LET rs == io_call.resources
           IN  /\ io_ret.phase \in {"mmio", "pio"}
               /\ rs[io_ret.at].kind = io_ret.phase
               /\ io_ret.phase = "mmio"
                      => /\ pio_bus = io_pre.pio
                         /\ mmio_bus = io_pre.mmio
                                \cup EntriesOf(rs, "mmio", io_call.device, io_ret.at - 1)
               /\ io_ret.phase = "pio"
                      => /\ mmio_bus = io_pre.mmio
                                \cup EntriesOf(rs, "mmio", io_call.device, Len(rs))
                         /\ pio_bus = io_pre.pio
                                \cup EntriesOf(rs, "pio", io_call.device, io_ret.at - 1)

\* The MMIO registration failed and R held a PIO descriptor that the PIO bus
\* would have accepted: it was not registered.
C20_Witness ==
    /\ io_call.op = "register_resources"
    /\ io_ret.tag = "DeviceOverlap"
    /\ io_ret.phase = "mmio"
    /\ \E i \in 1..Len(io_call.resources) :
           /\ io_call.resources[i].kind = "pio"
           /\ io_call.resources[i].size > 0
           /\ io_pre.pio = {}
    /\ pio_bus = {}

\* What a &self method returns when it runs with nothing else in flight.
Alone(buses, op, addr, len) ==
    IF IsLookup(op) THEN device(buses[KindOf(op)], addr)
    ELSE IF IsCheck(op) THEN check_access(buses[KindOf(op)], addr, len)
    ELSE dispatch(buses[KindOf(op)], op, addr, len)

\* C21: while lookups, check_access calls and dispatches are in flight in any
\* interleaving (and no registration or unregistration is), both buses stay
\* as they were when each call started, the entry a call holds is the one the
\* lookup finds alone, and each call returns what it would return run alone
\* on those buses: the same range, device and offset, or the same error.
C21_SharedReadsIndependent ==
    \A t \in Thread :
        threads[t].pc # "idle" =>
            /\ Buses = threads[t].start
            /\ threads[t].pc = "found" =>
                   threads[t].found =
                       lookup(threads[t].start[KindOf(threads[t].op)],
                              threads[t].addr)
            /\ threads[t].pc = "done" =>
                   threads[t].ret = Alone(threads[t].start, threads[t].op,
                                          threads[t].addr, threads[t].len)

\* Two dispatches on the same bus in flight together: one has called its
\* device at a non-zero offset while the other still holds the references
\* of its lookup.
C21_Witness ==
    \E t \in Thread, u \in Thread :
        /\ t # u
        /\ threads[t].pc = "done"
        /\ threads[t].op \in DispatchOps
        /\ threads[t].ret.tag = "Ok"
        /\ threads[t].ret.calls[1].offset > 0
        /\ threads[u].pc = "found"
        /\ threads[u].op \in DispatchOps
        /\ KindOf(threads[u].op) = KindOf(threads[t].op)
        /\ threads[u].addr # threads[t].addr

\* C22: unregister_resources looks only at the base of an address-range
\* descriptor: every range of the descriptor's bus that contains the base is
\* removed whole and the descriptor counts as a success, whatever the
\* descriptor's size and whether or not its base is the range's base; a
\* descriptor whose base no range contains removes nothing and counts
\* nothing, even when its span meets a stored range.
C22_BaseDecides ==
    io_call.op = "unregister_resources" =>
        LET rs == io_call.resources
            st == io_ret.steps
            Hit(i) == Covering(st[i][rs[i].kind], rs[i].base)
        IN  /\ \A i \in 1..Len(rs) :
                   rs[i].kind # "irq" =>
                       st[i + 1][rs[i].kind] = st[i][rs[i].kind] \ Hit(i)
            /\ io_ret.count =
                   Cardinality({i \in 1..Len(rs) :
                                   rs[i].kind # "irq" /\ Hit(i) # {}})

====
